---- MODULE Spec2Model ----
(***************************************************************************)
(* A model of the trading-viewbot relay server (index.js): the chat        *)
(* registry (savedChatIds, chat_ids.json, DEFAULT_CHAT_ID), the two        *)
(* producers that discover chats (the getUpdates polling loop and the      *)
(* POST /telegram-webhook handler) and the two fan-out handlers            *)
(* (handleWebhook and POST /broadcast).                                    *)
(*                                                                         *)
(* Node runs the program on one thread: a handler runs without             *)
(* interruption until it reaches an await (a fetch of the Telegram API),   *)
(* is suspended there, and other handlers run until the awaited promise    *)
(* settles.  Every action below is one such uninterrupted run.             *)
(***************************************************************************)
EXTENDS Integers, Sequences, FiniteSets, TLC

(***************************************************************************)
(* Bounds of the model.                                                    *)
(***************************************************************************)
NumChats == 2        \* distinct Telegram chats that may write to the bot
MaxUpdates == 2      \* updates the remote API hands out in one behaviour
MaxRestarts == 1     \* process restarts in one behaviour

(***************************************************************************)
(* JavaScript values.                                                      *)
(***************************************************************************)
Undefined == "undefined"

\* JavaScript truthiness of a string-or-undefined value.
Truthy(v) == v /= Undefined /\ v /= ""

\* a || b on string-or-undefined values.
Or(a, b) == IF Truthy(a) THEN a ELSE b

\* The decimal spellings of the chat ids of the model.
ChatIdStr == <<"101", "102", "103", "104">>

ChatIds == {ChatIdStr[n] : n \in 1..NumChats}

\* message.chat.id as it arrives: Telegram sends a JSON number, and a
\* JSON string spelling the same digits is accepted as well.
RawIds == [t : {"number", "string"}, n : 1..NumChats]

\* String(message.chat.id)
String(raw) == ChatIdStr[raw.n]

(***************************************************************************)
(* The snapshot file chat_ids.json and JSON.                               *)
(***************************************************************************)
ArrayOf(items) == [type |-> "array", items |-> items]

EmptyArray == ArrayOf(<< >>)

\* Values JSON.parse can return that are not arrays.
JsNull == [type |-> "null", items |-> << >>]
JsObject == [type |-> "object", items |-> << >>]
JsNumber == [type |-> "number", items |-> << >>]

FileMissing == [kind |-> "missing", value |-> EmptyArray]
FileGarbage == [kind |-> "garbage", value |-> EmptyArray]

\* JSON.stringify(value, null, 2) written to the file.
JsonFile(value) == [kind |-> "json", value |-> value]

\* fs.existsSync(CHAT_IDS_FILE)
existsSync(f) == f.kind /= "missing"

\* JSON.parse(fs.readFileSync(...)) : does it throw?
ParseThrows(f) == f.kind /= "json"

\* savedChatIds.length in the log line of the loader: throws on null.
LengthThrows(v) == v.type = "null"

\* The loader at module scope: the value of savedChatIds after start-up.
Load(f) ==
  IF ~existsSync(f) THEN EmptyArray
  ELSE IF ParseThrows(f) THEN EmptyArray
  ELSE IF LengthThrows(f.value) THEN EmptyArray
  ELSE f.value

(***************************************************************************)
(* Messages of the Telegram API.                                           *)
(***************************************************************************)
NoChat == [t |-> "none", n |-> 0]

NoFrom == [username |-> Undefined, first_name |-> Undefined]

Froms == {NoFrom,
          [username |-> "alice", first_name |-> "Al"],
          [username |-> Undefined, first_name |-> "Bob"]}

\* message.text
Texts == {Undefined, "/start", "/chatid", "/status", "hi"}

NoMessage == [present |-> FALSE, chat |-> NoChat, from |-> NoFrom, text |-> Undefined]

ChatMessages == [present : {TRUE}, chat : RawIds, from : Froms, text : Texts]

\* update.message / req.body.message: absent, without a chat, or complete.
Messages ==
  {NoMessage, [present |-> TRUE, chat |-> NoChat, from |-> NoFrom, text |-> "hi"]}
    \cup ChatMessages

\* The sender of the messages of chat n.
FromOf(n) ==
  IF n = 1 THEN [username |-> "alice", first_name |-> "Al"]
  ELSE IF n = 2 THEN [username |-> Undefined, first_name |-> "Bob"]
  ELSE NoFrom

ChatMessage(t, n, text) ==
  [present |-> TRUE, chat |-> [t |-> t, n |-> n], from |-> FromOf(n), text |-> text]

\* What getUpdates delivers in the concurrent model: updates without a
\* message, and messages of the chats with Telegram's numeric chat id.
PollMessages == {NoMessage} \cup {ChatMessage("number", n, "hi") : n \in 1..NumChats}

\* What is posted to /telegram-webhook in the concurrent model: the chat
\* id is a number, or for the first chat also a string of the same digits.
PushMessages ==
  {NoMessage, [present |-> TRUE, chat |-> NoChat, from |-> NoFrom, text |-> "hi"],
   ChatMessage("string", 1, "hi")}
    \cup {ChatMessage("number", n, x) : n \in 1..NumChats, x \in {"/start", "hi"}}

HasChat(m) == m.present /\ m.chat.t /= "none"

\* message.from?.username || message.from?.first_name || 'unknown'
UsernameOf(m) == Or(m.from.username, Or(m.from.first_name, "unknown"))

\* message.text || ''
TextOf(m) == Or(m.text, "")

(***************************************************************************)
(* State.                                                                  *)
(***************************************************************************)
VARIABLES
  envDefault,       \* process.env.DEFAULT_CHAT_ID
  SHARED_SECRET,    \* process.env.SHARED_SECRET
  file,             \* the content of chat_ids.json
  savedChatIds,     \* the in-memory registry
  DEFAULT_CHAT_ID,  \* the default destination
  clock,            \* Date: the number of records created so far
  lastUpdateId,     \* the polling cursor
  updates,          \* updates the remote API holds, oldest first
  nextUpdateId,     \* the update_id of the next update
  poll,             \* the position of pollTelegram
  push,             \* the position of the /telegram-webhook handler
  relay,            \* the position of handleWebhook or of the /broadcast handler
  stats,            \* per chat id: outcomes of saveChatId in this process
  restarts,         \* restarts so far
  loaded,           \* the number of records savedChatIds had after loading
  aux,              \* the position of the sequential registry client
  handled           \* per update_id: calls of processMessage in this process

vars == <<envDefault, SHARED_SECRET, file, savedChatIds, DEFAULT_CHAT_ID,
          clock, lastUpdateId, updates, nextUpdateId, poll, push, relay,
          stats, restarts, loaded, aux, handled>>

(***************************************************************************)
(* The registry: saveChatId.                                               *)
(***************************************************************************)
Items == savedChatIds.items

Ids(items) == {items[i].id : i \in 1..Len(items)}

\* savedChatIds.find(c => c.id === chatId)
Exists(chatId) == \E i \in 1..Len(Items) : Items[i].id = chatId

\* What fs.writeFileSync can do: write the file, or throw and leave it as
\* it was (EACCES, EROFS).
WriteOutcomes == {"ok", "denied"}

SaveResult(ret, saved, f, def, pushed, wrote) ==
  [ret |-> ret, saved |-> saved, file |-> f, def |-> def,
   pushed |-> pushed, wrote |-> wrote]

\* Variants of saveChatId with one step of it changed: without the find
\* (dedup = FALSE), without the test of DEFAULT_CHAT_ID (guard = FALSE),
\* writing the array as it was before the push (fresh = FALSE), or taking
\* the record out again when the write throws (keep = FALSE).
SaveVariant(chatId, username, w, dedup, guard, fresh, keep) ==
  IF dedup /\ Exists(chatId)
  THEN SaveResult("false", savedChatIds, file, DEFAULT_CHAT_ID, FALSE, FALSE)
  ELSE LET rec == [id |-> chatId, username |-> username, addedAt |-> clock]
           saved == ArrayOf(Append(Items, rec))
       IN  IF w = "ok"
           THEN SaveResult("true", saved,
                           JsonFile(IF fresh THEN saved ELSE savedChatIds),
                           IF guard /\ Truthy(DEFAULT_CHAT_ID)
                           THEN DEFAULT_CHAT_ID ELSE chatId,
                           TRUE, TRUE)
           ELSE SaveResult("throw", IF keep THEN saved ELSE savedChatIds,
                           file, DEFAULT_CHAT_ID, TRUE, TRUE)

saveChatId_NoFind(chatId, username, w) ==
  SaveVariant(chatId, username, w, FALSE, TRUE, TRUE, TRUE)

saveChatId_NoDefaultTest(chatId, username, w) ==
  SaveVariant(chatId, username, w, TRUE, FALSE, TRUE, TRUE)

saveChatId_StaleWrite(chatId, username, w) ==
  SaveVariant(chatId, username, w, TRUE, TRUE, FALSE, TRUE)

saveChatId_Rollback(chatId, username, w) ==
  SaveVariant(chatId, username, w, TRUE, TRUE, TRUE, FALSE)

\* A variant of saveChatId that stores the label passed for a chat id it
\* already holds, and writes the file.
saveChatId_Upsert(chatId, username, w) ==
  IF Exists(chatId)
  THEN LET saved == ArrayOf([i \in 1..Len(Items) |->
                       IF Items[i].id = chatId
                       THEN [Items[i] EXCEPT !.username = username]
                       ELSE Items[i]])
       IN  SaveResult("false", saved, JsonFile(saved), DEFAULT_CHAT_ID,
                      FALSE, TRUE)
  ELSE SaveVariant(chatId, username, w, TRUE, TRUE, TRUE, TRUE)

\* A variant of saveChatId that puts the new record in front of the others.
saveChatId_Unshift(chatId, username, w) ==
  IF Exists(chatId)
  THEN SaveResult("false", savedChatIds, file, DEFAULT_CHAT_ID, FALSE, FALSE)
  ELSE LET rec == [id |-> chatId, username |-> username, addedAt |-> clock]
           saved == ArrayOf(<<rec>> \o Items)
       IN  IF w = "ok"
           THEN SaveResult("true", saved, JsonFile(saved),
                           IF ~Truthy(DEFAULT_CHAT_ID) THEN chatId
                           ELSE DEFAULT_CHAT_ID,
                           TRUE, TRUE)
           ELSE SaveResult("throw", saved, file, DEFAULT_CHAT_ID, TRUE, TRUE)

\* saveChatId(chatId, username) under write outcome w.  ret is "true" or
\* "false" when the call returns and "throw" when it throws.
saveChatId(chatId, username, w) ==
  IF savedChatIds.type /= "array"
  THEN SaveResult("throw", savedChatIds, file, DEFAULT_CHAT_ID, FALSE, FALSE)
  ELSE IF Exists(chatId)
  THEN SaveResult("false", savedChatIds, file, DEFAULT_CHAT_ID, FALSE, FALSE)
  ELSE LET rec == [id |-> chatId, username |-> username, addedAt |-> clock]
           saved == ArrayOf(Append(Items, rec))
       IN  IF w = "ok"
           THEN SaveResult("true", saved, JsonFile(saved),
                           IF ~Truthy(DEFAULT_CHAT_ID) THEN chatId
                           ELSE DEFAULT_CHAT_ID,
                           TRUE, TRUE)
           ELSE SaveResult("throw", saved, file, DEFAULT_CHAT_ID, TRUE, TRUE)

NoStats == [c \in ChatIds |-> [new |-> 0, flush |-> 0, thrown |-> 0]]

NoHandled == [u \in 1..MaxUpdates |-> 0]

\* The effect of one saveChatId call on the registry state.  stats counts,
\* per chat id, the calls that returned true (new), the calls that reached
\* writeFileSync (flush) and the calls whose writeFileSync threw (thrown).
ApplySave(chatId, r) ==
  /\ savedChatIds' = r.saved
  /\ file' = r.file
  /\ DEFAULT_CHAT_ID' = r.def
  /\ clock' = IF r.pushed THEN clock + 1 ELSE clock
  /\ stats' = [stats EXCEPT ![chatId] =
                 [new |-> @.new + (IF r.ret = "true" THEN 1 ELSE 0),
                  flush |-> @.flush + (IF r.wrote THEN 1 ELSE 0),
                  thrown |-> @.thrown + (IF r.wrote /\ r.ret = "throw" THEN 1 ELSE 0)]]

RegistryUnchanged ==
  UNCHANGED <<savedChatIds, file, DEFAULT_CHAT_ID, clock, stats>>

(***************************************************************************)
(* The remote API.                                                         *)
(***************************************************************************)
\* What a fetch of the Telegram API can do: answer ok, answer with
\* ok=false, or fail (network error, unreadable body), which throws.
FetchOutcomes == {"ok", "notok", "throw"}

NoReply == [to |-> Undefined, kind |-> "none"]

\* getUpdates?offset=o : the updates with update_id >= o.
getUpdates(o) == SelectSeq(updates, LAMBDA u : u.update_id >= o)

\* A user writes to the bot: the remote API queues an update.
UserSends(m) ==
  /\ nextUpdateId <= MaxUpdates
  /\ updates' = Append(updates, [update_id |-> nextUpdateId, message |-> m])
  /\ nextUpdateId' = nextUpdateId + 1
  /\ UNCHANGED <<envDefault, SHARED_SECRET, lastUpdateId, poll, push, relay, restarts, loaded, aux,
                 handled>>
  /\ RegistryUnchanged

(***************************************************************************)
(* The polling producer: pollTelegram and processMessage.                  *)
(***************************************************************************)
\* A variant of PollFetching that asks for the updates from the cursor on.
PollFetching_FromCursor(cursor) ==
  [pc |-> "fetching", offset |-> cursor, batch |-> << >>, idx |-> 0,
   reply |-> NoReply]

\* pollTelegram up to its first await: the fetch of getUpdates is issued.
PollFetching(cursor) ==
  [pc |-> "fetching", offset |-> cursor + 1, batch |-> << >>, idx |-> 0,
   reply |-> NoReply]

\* setTimeout(pollTelegram, 1000) is pending.
PollTimer == [pc |-> "timer", offset |-> 0, batch |-> << >>, idx |-> 0,
              reply |-> NoReply]

\* The reply processMessage sends.
ProcessReply(isNew, text) ==
  IF isNew THEN "welcome"
  ELSE IF text = "/start" THEN "start"
  ELSE IF text = "/chatid" THEN "chatid"
  ELSE IF text = "/status" THEN "status"
  ELSE "echo"

\* The for loop after the update at idx: the next update, or the end of
\* the try block and setTimeout.
PollAfter(idx) ==
  IF idx < Len(poll.batch)
  THEN [poll EXCEPT !.pc = "loop", !.idx = idx + 1, !.reply = NoReply]
  ELSE PollTimer

\* The timer fires: pollTelegram is called and issues its fetch.
PollStart ==
  /\ poll.pc = "timer"
  /\ poll' = PollFetching(lastUpdateId)
  /\ UNCHANGED <<envDefault, SHARED_SECRET, lastUpdateId, updates,
                 nextUpdateId, push, relay, restarts, loaded, aux,
                 handled>>
  /\ RegistryUnchanged

\* The fetch of getUpdates settles.
PollResponse(o) ==
  /\ poll.pc = "fetching"
  /\ LET result == getUpdates(poll.offset)
     IN  /\ updates' = IF o = "ok" THEN result ELSE updates
         /\ poll' = IF o = "ok" /\ Len(result) > 0
                    THEN [pc |-> "loop", offset |-> poll.offset,
                          batch |-> result, idx |-> 1, reply |-> NoReply]
                    ELSE PollTimer
  /\ UNCHANGED <<envDefault, SHARED_SECRET, lastUpdateId, nextUpdateId,
                 push, relay, restarts, loaded, aux,
                 handled>>
  /\ RegistryUnchanged

\* A variant of PollUpdate that moves the cursor to the last update of the
\* batch when the first one is taken up.
PollUpdate_CursorToBatchEnd(w) ==
  /\ poll.pc = "loop"
  /\ LET update == poll.batch[poll.idx]
         m == update.message
         chatId == String(m.chat)
         r == saveChatId(chatId, UsernameOf(m), w)
     IN  /\ lastUpdateId' = poll.batch[Len(poll.batch)].update_id
         /\ handled' = IF m.present
                       THEN [handled EXCEPT ![update.update_id] = @ + 1]
                       ELSE handled
         /\ IF ~HasChat(m)
            THEN /\ poll' = PollAfter(poll.idx)
                 /\ RegistryUnchanged
            ELSE /\ ApplySave(chatId, r)
                 /\ poll' = IF r.ret = "throw" THEN PollTimer
                            ELSE [poll EXCEPT !.pc = "replying",
                                    !.reply = [to |-> chatId,
                                               kind |-> ProcessReply(r.ret = "true", TextOf(m))]]
  /\ UNCHANGED <<envDefault, SHARED_SECRET, updates, nextUpdateId, push,
                 relay, restarts, loaded, aux>>

\* One iteration of the for loop up to the await inside processMessage.
PollUpdate(w) ==
  /\ poll.pc = "loop"
  /\ LET update == poll.batch[poll.idx]
         m == update.message
         chatId == String(m.chat)
         r == saveChatId(chatId, UsernameOf(m), w)
     IN  /\ lastUpdateId' = update.update_id
         /\ handled' = IF m.present
                       THEN [handled EXCEPT ![update.update_id] = @ + 1]
                       ELSE handled
         /\ IF ~HasChat(m)
            THEN /\ poll' = PollAfter(poll.idx)
                 /\ RegistryUnchanged
            ELSE /\ ApplySave(chatId, r)
                 /\ poll' = IF r.ret = "throw" THEN PollTimer
                            ELSE [poll EXCEPT !.pc = "replying",
                                    !.reply = [to |-> chatId,
                                               kind |-> ProcessReply(r.ret = "true", TextOf(m))]]
  /\ UNCHANGED <<envDefault, SHARED_SECRET, updates, nextUpdateId, push,
                 relay, restarts, loaded, aux>>

\* A variant of PollReplied in which a failed send is not caught by
\* pollTelegram, so that setTimeout is never reached.
PollReplied_Uncaught(o) ==
  /\ poll.pc = "replying"
  /\ poll' = IF o = "throw" THEN [PollTimer EXCEPT !.pc = "stopped"]
             ELSE PollAfter(poll.idx)
  /\ UNCHANGED <<envDefault, SHARED_SECRET, lastUpdateId, updates,
                 nextUpdateId, push, relay, restarts, loaded, aux,
                 handled>>
  /\ RegistryUnchanged

\* The fetch of sendTelegramMessage settles: a failed fetch throws out of
\* processMessage and of the for loop into the catch block of pollTelegram.
PollReplied(o) ==
  /\ poll.pc = "replying"
  /\ poll' = IF o = "throw" THEN PollTimer ELSE PollAfter(poll.idx)
  /\ UNCHANGED <<envDefault, SHARED_SECRET, lastUpdateId, updates,
                 nextUpdateId, push, relay, restarts, loaded, aux,
                 handled>>
  /\ RegistryUnchanged

(***************************************************************************)
(* The push producer: POST /telegram-webhook.                              *)
(***************************************************************************)
\* responses and status are the responses written for the request in
\* progress (or answered last); failed is what threw inside the handler.
PushIdle == [pc |-> "idle", reply |-> NoReply, responses |-> 0, status |-> 0,
             failed |-> "none"]

\* The reply the push handler sends.
PushReply(isNew, text) ==
  IF isNew THEN "welcome"
  ELSE IF text = "/start" \/ text = "/chatid" THEN "info"
  ELSE "none"

\* req.body of a push request: no body at all, or an envelope.
PushBodies == [hasBody : {FALSE}, message : {NoMessage}]
                \cup [hasBody : {TRUE}, message : PushMessages]

\* res.status(200).json({ ok: true }), at the end of the try block or in
\* the catch block.
PushRespond(p, failed) ==
  [p EXCEPT !.pc = "idle", !.reply = NoReply, !.responses = @ + 1,
            !.status = 200, !.failed = failed]

\* A request arrives: the handler up to its await, or to its response.
PushReceive(body, w) ==
  /\ push.pc = "idle"
  /\ LET m == body.message
         chatId == String(m.chat)
         r == saveChatId(chatId, UsernameOf(m), w)
         kind == PushReply(r.ret = "true", TextOf(m))
         p == [PushIdle EXCEPT !.pc = "running"]
     IN  IF ~body.hasBody \/ ~HasChat(m)
         THEN /\ push' = PushRespond(p, IF body.hasBody THEN "none" ELSE "body")
              /\ RegistryUnchanged
         ELSE /\ ApplySave(chatId, r)
              /\ push' = IF r.ret = "throw" THEN PushRespond(p, "save")
                         ELSE IF kind = "none" THEN PushRespond(p, "none")
                         ELSE [p EXCEPT !.pc = "replying",
                                 !.reply = [to |-> chatId, kind |-> kind]]
  /\ UNCHANGED <<envDefault, SHARED_SECRET, lastUpdateId, updates,
                 nextUpdateId, poll, relay, restarts, loaded, aux,
                 handled>>

\* A variant of PushReplied that lets a failed send reach the caller as a
\* 500 response.
PushReplied_Propagate(o) ==
  /\ push.pc = "replying"
  /\ push' = IF o = "throw"
             THEN [PushRespond(push, "reply") EXCEPT !.status = 500]
             ELSE PushRespond(push, "none")
  /\ UNCHANGED <<envDefault, SHARED_SECRET, lastUpdateId, updates,
                 nextUpdateId, poll, relay, restarts, loaded, aux,
                 handled>>
  /\ RegistryUnchanged

\* The fetch of sendMessage settles: the handler responds either way (the
\* body of the answer is not read, so ok=false goes unnoticed).
PushReplied(o) ==
  /\ push.pc = "replying"
  /\ push' = PushRespond(push, IF o = "throw" THEN "reply" ELSE "none")
  /\ UNCHANGED <<envDefault, SHARED_SECRET, lastUpdateId, updates,
                 nextUpdateId, poll, relay, restarts, loaded, aux,
                 handled>>
  /\ RegistryUnchanged

(***************************************************************************)
(* The alert relay: handleWebhook (POST /tv-webhook, POST /) and           *)
(* POST /broadcast.  The model follows one relay request at a time.        *)
(***************************************************************************)
\* The credential a request may carry.
Secrets == {Undefined, "S", "wrong"}

AlertRequest(bodyType, text, message, alert, chat_id, secret, header) ==
  [bodyType |-> bodyType, text |-> text, message |-> message,
   alert |-> alert, chat_id |-> chat_id, secret |-> secret,
   header |-> header]

\* Requests to /tv-webhook: JSON bodies with a text and each credential,
\* with and without chat_id, JSON bodies without text, JSON bodies with
\* message or alert instead of text, and plain text bodies (text holds the
\* body) with the secret in the header.
AlertRequests ==
  {AlertRequest("object", "BUY", Undefined, Undefined, Undefined, x, Undefined) :
     x \in Secrets}
  \cup {AlertRequest("object", t, Undefined, Undefined, ChatIdStr[1], Undefined, Undefined) :
          t \in {Undefined, "BUY"}}
  \cup {AlertRequest("object", Undefined, Undefined, Undefined, Undefined, Undefined, Undefined),
        AlertRequest("object", Undefined, "MSG", Undefined, Undefined, Undefined, "S"),
        AlertRequest("object", "", Undefined, "ALERT", Undefined, Undefined, Undefined),
        AlertRequest("string", "BUY", Undefined, Undefined, Undefined, Undefined, "wrong")}
  \cup {AlertRequest("string", t, Undefined, Undefined, Undefined, Undefined, Undefined) :
          t \in {"", "{}", "\"\"", "BUY"}}

\* Requests to /broadcast: { text, secret }.
BroadcastRequests ==
  {AlertRequest("object", "BUY", Undefined, Undefined, Undefined, x, Undefined) :
     x \in Secrets}
  \cup {AlertRequest("object", t, Undefined, Undefined, Undefined, Undefined, Undefined) :
          t \in {Undefined, ""}}

\* JSON.stringify(body) of a JSON body.
StringifyBody(req) ==
  IF /\ req.text = Undefined /\ req.message = Undefined /\ req.alert = Undefined
     /\ req.chat_id = Undefined /\ req.secret = Undefined
  THEN "{}" ELSE "{...}"

\* The text handleWebhook extracts from the body.
AlertText(req) ==
  IF req.bodyType = "string" THEN req.text
  ELSE Or(req.text, Or(req.message, Or(req.alert, StringifyBody(req))))

\* !text || text === '{}' || text === '""'
NoContent(text) == ~Truthy(text) \/ text = "{}" \/ text = "\"\""

NoResponse == [status |-> 0, success |-> FALSE, error |-> "", sent |-> 0,
               total |-> 0, results |-> << >>]

NoRequest == AlertRequest("none", Undefined, Undefined, Undefined, Undefined,
                          Undefined, Undefined)

\* start is the number of records savedChatIds held when the request in
\* progress (or answered last) arrived.
RelayIdle == [endpoint |-> "none", pc |-> "idle", req |-> NoRequest, i |-> 0,
              results |-> << >>, resp |-> NoResponse, start |-> 0]

\* res.status(status).json({ success: false, error })
ErrorResponse(status, error) ==
  [NoResponse EXCEPT !.status = status, !.error = error]

\* A variant of PushResult that records the sends that succeeded only.
PushResult_DropFailed(results, chatId, o) ==
  IF o = "ok"
  THEN Append(results, [chatId |-> chatId, success |-> TRUE, error |-> FALSE])
  ELSE results

\* results.push(...) after the fetch of sendMessage settled with outcome o.
PushResult(results, chatId, o) ==
  Append(results, [chatId |-> chatId, success |-> (o = "ok"),
                   error |-> (o = "throw")])

\* results.filter(r => r.success).length
Succeeded(results) ==
  Cardinality({k \in 1..Len(results) : results[k].success})

\* The response of handleWebhook after the loop.
AlertResponse(results) ==
  [status |-> 200, success |-> TRUE, error |-> "",
   sent |-> Succeeded(results), total |-> Len(Items), results |-> results]

\* The response of /broadcast after the loop.
BroadcastResponse(results) ==
  [status |-> 200, success |-> TRUE, error |-> "",
   sent |-> Len(results), total |-> 0, results |-> results]

\* A handler responds: the request is over.
Respond(endpoint, req, resp, start) ==
  [endpoint |-> endpoint, pc |-> "idle", req |-> req, i |-> 0,
   results |-> << >>, resp |-> resp, start |-> start]

\* The fetch of sendMessage to savedChatIds[i] is in flight.
Sending(endpoint, req, i, results, start) ==
  [endpoint |-> endpoint, pc |-> "sending", req |-> req, i |-> i,
   results |-> results, resp |-> NoResponse, start |-> start]

RelayFrame ==
  /\ UNCHANGED <<envDefault, SHARED_SECRET, lastUpdateId, updates,
                 nextUpdateId, poll, push, restarts, loaded, aux,
                 handled>>
  /\ RegistryUnchanged

\* A request arrives at /tv-webhook: handleWebhook up to its first await,
\* or to its response.
AlertReceive(req) ==
  /\ relay.pc = "idle"
  /\ relay' =
       IF NoContent(AlertText(req))
       THEN Respond("tv-webhook", req, ErrorResponse(400, "No message content received"), Len(Items))
       ELSE IF savedChatIds.type /= "array"
       THEN Respond("tv-webhook", req, ErrorResponse(500, "Internal server error"), 0)
       ELSE IF Len(Items) = 0
       THEN Respond("tv-webhook", req, AlertResponse(<< >>), 0)
       ELSE Sending("tv-webhook", req, 1, << >>, Len(Items))
  /\ RelayFrame

\* The fetch of handleWebhook settles: the next record of savedChatIds, or
\* the response.
AlertSent(o) ==
  /\ relay.pc = "sending"
  /\ relay.endpoint = "tv-webhook"
  /\ LET results == PushResult(relay.results, Items[relay.i].id, o)
     IN  relay' = IF relay.i < Len(Items)
                  THEN Sending("tv-webhook", relay.req, relay.i + 1, results,
                               relay.start)
                  ELSE Respond("tv-webhook", relay.req, AlertResponse(results),
                               relay.start)
  /\ RelayFrame

\* A request arrives at /broadcast.
BroadcastReceive(req) ==
  /\ relay.pc = "idle"
  /\ relay' =
       IF ~Truthy(req.text)
       THEN Respond("broadcast", req, ErrorResponse(400, "Missing text"), Len(Items))
       ELSE IF savedChatIds.type /= "array"
       THEN Respond("broadcast", req, ErrorResponse(500, "savedChatIds is not iterable"), 0)
       ELSE IF Len(Items) = 0
       THEN Respond("broadcast", req, BroadcastResponse(<< >>), 0)
       ELSE Sending("broadcast", req, 1, << >>, Len(Items))
  /\ RelayFrame

\* The fetch of the /broadcast handler settles.
BroadcastSent(o) ==
  /\ relay.pc = "sending"
  /\ relay.endpoint = "broadcast"
  /\ LET results == PushResult(relay.results, Items[relay.i].id, o)
     IN  relay' = IF relay.i < Len(Items)
                  THEN Sending("broadcast", relay.req, relay.i + 1, results,
                               relay.start)
                  ELSE Respond("broadcast", relay.req, BroadcastResponse(results),
                               relay.start)
  /\ RelayFrame

(***************************************************************************)
(* Start and restart of the process.                                       *)
(***************************************************************************)
\* A record written by an earlier run of the program.
Seed(n) == [id |-> ChatIdStr[n], username |-> "unknown", addedAt |-> 0]

\* Snapshots the process starts from: none, or one written earlier.
InitialFiles == {FileMissing, JsonFile(ArrayOf(<<Seed(1)>>))}

NoAux == [step |-> "none", id |-> Undefined, w |-> "none", first |-> "none",
          second |-> "none", before |-> EmptyArray, label |-> Undefined]

\* The state after the module body of index.js has run.
Started(f, def, secret) ==
  /\ envDefault = def
  /\ SHARED_SECRET = secret
  /\ file = f
  /\ savedChatIds = Load(f)
  /\ DEFAULT_CHAT_ID = def
  /\ clock = 1
  /\ lastUpdateId = 0
  /\ updates = << >>
  /\ nextUpdateId = 1
  /\ poll = PollFetching(0)
  /\ push = PushIdle
  /\ relay = RelayIdle
  /\ stats = NoStats
  /\ restarts = 0
  /\ loaded = Len(Load(f).items)
  /\ aux = NoAux
  /\ handled = NoHandled

Init ==
  \E f \in InitialFiles, def \in {Undefined, ChatIdStr[1]} :
    Started(f, def, Undefined)

\* The process is stopped and started again: memory is lost, the file and
\* the environment stay.
Restart ==
  /\ restarts < MaxRestarts
  /\ restarts' = restarts + 1
  /\ savedChatIds' = Load(file)
  /\ DEFAULT_CHAT_ID' = envDefault
  /\ lastUpdateId' = 0
  /\ poll' = PollFetching(0)
  /\ push' = PushIdle
  /\ relay' = RelayIdle
  /\ stats' = NoStats
  /\ loaded' = Len(Load(file).items)
  /\ handled' = NoHandled
  /\ UNCHANGED <<envDefault, SHARED_SECRET, file, clock, updates,
                 nextUpdateId, aux>>

(***************************************************************************)
(* Spec: the two producers, with restarts.                                 *)
(***************************************************************************)
Next ==
  \/ \E m \in PollMessages : UserSends(m)
  \/ PollStart
  \/ \E o \in FetchOutcomes : PollResponse(o)
  \/ \E w \in WriteOutcomes : PollUpdate(w)
  \/ \E o \in FetchOutcomes : PollReplied(o)
  \/ \E b \in PushBodies, w \in WriteOutcomes : PushReceive(b, w)
  \/ \E o \in FetchOutcomes : PushReplied(o)
  \/ Restart

Spec == Init /\ [][Next]_vars

(***************************************************************************)
(* SpecPoll: the polling loop alone, with restarts.  The other handlers    *)
(* share only the registry with it; they write neither its position, nor   *)
(* the cursor, nor the updates of the remote API.                          *)
(***************************************************************************)
NextPoll ==
  \/ \E m \in PollMessages : UserSends(m)
  \/ PollStart
  \/ \E o \in FetchOutcomes : PollResponse(o)
  \/ \E w \in WriteOutcomes : PollUpdate(w)
  \/ \E o \in FetchOutcomes : PollReplied(o)
  \/ Restart

\* The event loop runs what is ready: a timer that has expired fires, a
\* fetch settles (it resolves or it rejects), and a handler whose awaited
\* promise has settled is resumed.
PollFairness ==
  /\ WF_vars(PollStart)
  /\ WF_vars(\E o \in FetchOutcomes : PollResponse(o))
  /\ WF_vars(\E w \in WriteOutcomes : PollUpdate(w))
  /\ WF_vars(\E o \in FetchOutcomes : PollReplied(o))

SpecPoll == Init /\ [][NextPoll]_vars /\ PollFairness

(***************************************************************************)
(* SpecDiscovery: the polling loop of SpecPoll with a remote API that      *)
(* keeps answering: of the fetches of getUpdates that are issued again and *)
(* again, one is answered with ok=true again and again.                    *)
(***************************************************************************)
RemoteKeepsAnswering == SF_vars(PollResponse("ok"))

SpecDiscovery ==
  Init /\ [][NextPoll]_vars /\ PollFairness /\ RemoteKeepsAnswering

(***************************************************************************)
(* SpecRelay: the relay handlers, while the push producer registers chats. *)
(***************************************************************************)
\* Snapshots the relay handlers are followed from: those of Spec, and a
\* file that holds a JSON object instead of an array.
RelayFiles == InitialFiles \cup {JsonFile(JsObject)}

\* A shared secret is configured and no default destination.
InitRelay ==
  \E f \in RelayFiles : Started(f, Undefined, "S")

NextRelay ==
  \/ \E req \in AlertRequests : AlertReceive(req)
  \/ \E o \in FetchOutcomes : AlertSent(o)
  \/ \E req \in BroadcastRequests : BroadcastReceive(req)
  \/ \E o \in FetchOutcomes : BroadcastSent(o)
  \/ \E b \in PushBodies, w \in WriteOutcomes : PushReceive(b, w)
  \/ \E o \in FetchOutcomes : PushReplied(o)

SpecRelay == InitRelay /\ [][NextRelay]_vars

(***************************************************************************)
(* SpecRegistry: one sequential client of the registry.  The process       *)
(* starts on any snapshot file, loads it, and saveChatId is called twice   *)
(* in succession with the same chat id.                                    *)
(***************************************************************************)
Labels == {"unknown", "alice", "Bob"}

Records == [id : ChatIds, username : Labels, addedAt : {0}]

\* The duplicate-free sequences of records.
Registries ==
  {s \in UNION {[1..k -> Records] : k \in 0..NumChats} :
     \A i, j \in 1..Len(s) : s[i].id = s[j].id => i = j}

\* What chat_ids.json can hold when the process starts.
AllFiles ==
  {FileMissing, FileGarbage, JsonFile(JsNull), JsonFile(JsObject),
   JsonFile(JsNumber)}
    \cup {JsonFile(ArrayOf(s)) : s \in Registries}

\* The module body of index.js before the loader has run.
InitRegistry ==
  \E f \in AllFiles, def \in {Undefined, "", ChatIdStr[1]} :
    /\ envDefault = def
    /\ SHARED_SECRET = Undefined
    /\ file = f
    /\ savedChatIds = EmptyArray
    /\ DEFAULT_CHAT_ID = def
    /\ clock = 1
    /\ lastUpdateId = 0
    /\ updates = << >>
    /\ nextUpdateId = 1
    /\ poll = PollTimer
    /\ push = PushIdle
    /\ relay = RelayIdle
    /\ stats = NoStats
    /\ restarts = 0
    /\ loaded = 0
    /\ aux = [NoAux EXCEPT !.step = "boot"]
    /\ handled = NoHandled

ClientFrame ==
  UNCHANGED <<envDefault, SHARED_SECRET, lastUpdateId, updates, nextUpdateId,
              poll, push, relay, restarts, handled>>

\* The loader runs.
LoadSnapshot ==
  /\ aux.step = "boot"
  /\ savedChatIds' = Load(file)
  /\ loaded' = Len(Load(file).items)
  /\ aux' = [aux EXCEPT !.step = "loaded"]
  /\ UNCHANGED <<file, DEFAULT_CHAT_ID, clock, stats>>
  /\ ClientFrame

\* The first call saveChatId(String(raw), username).
RegisterFirst(raw, username, w) ==
  /\ aux.step = "loaded"
  /\ LET chatId == String(raw)
         r == saveChatId(chatId, username, w)
     IN  /\ ApplySave(chatId, r)
         /\ aux' = [step |-> "first", id |-> chatId, w |-> w,
                    first |-> r.ret, second |-> "none",
                    before |-> savedChatIds, label |-> username]
  /\ UNCHANGED loaded
  /\ ClientFrame

\* The second call, with the same chat id.
RegisterSecond(username, w) ==
  /\ aux.step = "first"
  /\ LET r == saveChatId(aux.id, username, w)
     IN  /\ ApplySave(aux.id, r)
         /\ aux' = [aux EXCEPT !.step = "second", !.second = r.ret,
                               !.label = username]
  /\ UNCHANGED loaded
  /\ ClientFrame

(***************************************************************************)
(* SpecPush: the /telegram-webhook handler alone, one request after the    *)
(* other, started on any snapshot file and given any request body.         *)
(***************************************************************************)
\* req.body of a push request: no body at all, or an envelope with any
\* message.
AllPushBodies == [hasBody : {FALSE}, message : {NoMessage}]
                   \cup [hasBody : {TRUE}, message : Messages]

InitPush ==
  \E f \in AllFiles, def \in {Undefined, ChatIdStr[1]} :
    Started(f, def, Undefined)

NextPush ==
  \/ \E b \in AllPushBodies, w \in WriteOutcomes : PushReceive(b, w)
  \/ \E o \in FetchOutcomes : PushReplied(o)

SpecPush == InitPush /\ [][NextPush]_vars

(***************************************************************************)
(* SpecDeliver: one message of a user, delivered to the process by         *)
(* getUpdates, by a POST to /telegram-webhook, or by both, in either       *)
(* order.  The message has any chat id and any text.                       *)
(***************************************************************************)
\* What the user can have sent: every chat id with every text, a message
\* without a chat, and an update without a message.
DeliverMessages ==
  {NoMessage, [present |-> TRUE, chat |-> NoChat, from |-> NoFrom, text |-> "hi"]}
    \cup {ChatMessage(raw.t, raw.n, x) : raw \in RawIds, x \in Texts}

InitDeliver ==
  \E f \in RelayFiles : Started(f, Undefined, Undefined)

\* The message the user has sent.
Delivered == updates[1].message

\* The remote API posts the message to /telegram-webhook.
PushDelivered(w) ==
  /\ Len(updates) > 0
  /\ PushReceive([hasBody |-> TRUE, message |-> Delivered], w)

NextDeliver ==
  \/ \E m \in DeliverMessages : Len(updates) = 0 /\ UserSends(m)
  \/ PollStart
  \/ \E o \in FetchOutcomes : PollResponse(o)
  \/ \E w \in WriteOutcomes : PollUpdate(w)
  \/ \E o \in FetchOutcomes : PollReplied(o)
  \/ \E w \in WriteOutcomes : PushDelivered(w)
  \/ \E o \in FetchOutcomes : PushReplied(o)

SpecDeliver == InitDeliver /\ [][NextDeliver]_vars

(***************************************************************************)
(* SpecAll: one process lifetime with every handler that reaches the       *)
(* registry: the polling loop, the push handler, handleWebhook and         *)
(* /broadcast.  The relay handlers receive one fan-out request each.  GET  *)
(* /chat-ids and GET /health read savedChatIds and assign nothing: they    *)
(* are stuttering steps.                                                   *)
(***************************************************************************)
\* POST /webhook with { text: "BUY" }: no chat_id, so every saved chat.
FanOutAlert ==
  AlertRequest("object", "BUY", Undefined, Undefined, Undefined, Undefined, Undefined)

\* POST /broadcast with { text: "BUY", secret: "S" }.
FanOutBroadcast ==
  AlertRequest("object", "BUY", Undefined, Undefined, Undefined, "S", Undefined)

NextAll ==
  \/ \E m \in PollMessages : UserSends(m)
  \/ PollStart
  \/ \E o \in FetchOutcomes : PollResponse(o)
  \/ \E w \in WriteOutcomes : PollUpdate(w)
  \/ \E o \in FetchOutcomes : PollReplied(o)
  \/ \E b \in PushBodies, w \in WriteOutcomes : PushReceive(b, w)
  \/ \E o \in FetchOutcomes : PushReplied(o)
  \/ AlertReceive(FanOutAlert)
  \/ \E o \in FetchOutcomes : AlertSent(o)
  \/ BroadcastReceive(FanOutBroadcast)
  \/ \E o \in FetchOutcomes : BroadcastSent(o)

SpecAll == InitRelay /\ [][NextAll]_vars

NextRegistry ==
  \/ LoadSnapshot
  \/ \E raw \in RawIds, u \in Labels, w \in WriteOutcomes : RegisterFirst(raw, u, w)
  \/ \E u \in Labels, w \in WriteOutcomes : RegisterSecond(u, w)

SpecRegistry == InitRegistry /\ [][NextRegistry]_vars

(***************************************************************************)
(* Properties.                                                             *)
(***************************************************************************)
\* The number of records of savedChatIds with chat id c.
Count(c) == Cardinality({i \in 1..Len(Items) : Items[i].id = c})

\* C1: in every reachable state of the two producers, started on no
\* snapshot or on a duplicate-free one, savedChatIds holds at most one
\* record per chat id.
C1_UniqueIds ==
  \A i, j \in 1..Len(Items) : Items[i].id = Items[j].id => i = j

\* Both producers are suspended on a reply while the registry is full; the
\* polling producer has seen a chat that was already registered.
C1_Witness ==
  /\ Len(Items) = NumChats
  /\ poll.pc = "replying" /\ poll.reply.kind = "echo"
  /\ push.pc = "replying"

C4_DefaultIsFirstRegistered ==
  (~Truthy(envDefault) /\ Len(Items) > loaded)
  => DEFAULT_CHAT_ID = Items[loaded + 1].id

\* C5: a default destination configured in the environment is the default
\* destination in every reachable state.
C5_ConfiguredDefaultKept ==
  Truthy(envDefault) => DEFAULT_CHAT_ID = envDefault

\* A chat other than the configured default was registered.
C5_Witness ==
  /\ Truthy(envDefault)
  /\ \E c \in ChatIds : c /= envDefault /\ stats[c].new = 1

\* No write of the snapshot has failed in this process.
NoWriteFailure == \A c \in ChatIds : stats[c].thrown = 0

\* saveChatId returned true for chat id c in this step.
ReturnedNew(c) == stats'[c].new = stats[c].new + 1

\* saveChatId threw for chat id c in this step.
Threw(c) == stats'[c].thrown = stats[c].thrown + 1

\* C6: when saveChatId returns true the file holds exactly savedChatIds
\* and the caller has not sent its welcome reply yet; and while no write
\* has failed, the file as loaded equals savedChatIds in every state.
C6_WriteThrough ==
  /\ [](NoWriteFailure => Load(file) = savedChatIds)
  /\ [][\A c \in ChatIds :
          ReturnedNew(c) =>
            /\ file' = JsonFile(savedChatIds')
            /\ poll' /= poll => poll'.pc = "replying"
            /\ push' /= push => push'.pc = "replying"]_vars

\* The push producer is suspended on the welcome reply to the second chat
\* and the file holds both records.
C6_Witness ==
  /\ Len(Items) >= 2
  /\ push.pc = "replying" /\ push.reply.kind = "welcome"
  /\ stats[push.reply.to].new = 1
  /\ file = JsonFile(savedChatIds)

\* C7: when the write of the snapshot fails, saveChatId throws, the new
\* record stays in savedChatIds, the push handler responds 200 and the
\* polling loop sets its timer for the next cycle.
C7_FlushFailure ==
  /\ [](\A c \in ChatIds : stats[c].thrown > 0 => Exists(c))
  /\ [][\A c \in ChatIds :
          Threw(c) =>
            /\ ~Exists(c) /\ (Exists(c))'
            /\ file' = file
            /\ push' /= push =>
                 push'.pc = "idle" /\ push'.responses = 1 /\ push'.status = 200
            /\ poll' /= poll => poll'.pc = "timer"]_vars

\* A write failed for a chat the push producer discovered: the record is
\* in memory, not in the file, and the request was answered.
C7_Witness ==
  \E c \in ChatIds :
    /\ stats[c].thrown = 1
    /\ Exists(c)
    /\ c \notin Ids(Load(file).items)
    /\ push.pc = "idle" /\ push.responses = 1 /\ push.status = 200

\* C8: a restart after registrations that were all written reproduces the
\* records in their order and the default destination.
C8_RoundTrip ==
  [][(restarts' = restarts + 1 /\ NoWriteFailure)
       => /\ savedChatIds' = savedChatIds
          /\ DEFAULT_CHAT_ID' = DEFAULT_CHAT_ID]_vars

\* C9: the loader yields the empty registry when the file is missing,
\* cannot be parsed, or parses to something that is not an array.
C9_LoadYieldsEmpty ==
  (/\ aux.step = "loaded"
   /\ (~existsSync(file) \/ ParseThrows(file) \/ file.value.type /= "array"))
  => savedChatIds = EmptyArray

\* The secret a relay request carries, in its body or in its header.
Presented(req) == Or(req.secret, req.header)

\* The relay request in progress, or answered last, carries a text.
CarriesText ==
  \/ relay.endpoint = "tv-webhook" /\ ~NoContent(AlertText(relay.req))
  \/ relay.endpoint = "broadcast" /\ Truthy(relay.req.text)

\* C10: with a shared secret configured, a relay request with a text that
\* carries no secret or another one is answered 401 and nothing is sent
\* for it.
C10_AuthGate ==
  (/\ Truthy(SHARED_SECRET)
   /\ CarriesText
   /\ Presented(relay.req) /= SHARED_SECRET)
  => relay.pc = "idle" /\ relay.resp.status = 401

\* The JSON body of the relay request names neither text nor message nor
\* alert.
NamesNoText(req) ==
  /\ req.bodyType = "object"
  /\ req.text = Undefined /\ req.message = Undefined /\ req.alert = Undefined

\* C11: a relay request whose JSON body has no text (only chat_id, only
\* secret, or nothing) is answered 400, whatever the registry array holds,
\* and nothing is sent for it.
C11_MissingText ==
  (/\ relay.endpoint /= "none"
   /\ NamesNoText(relay.req)
   /\ savedChatIds.type = "array")
  => relay.pc = "idle" /\ relay.resp.status = 400

\* body.chat_id || DEFAULT_CHAT_ID
Destination(req) == Or(req.chat_id, DEFAULT_CHAT_ID)

\* C12: an alert posted to /tv-webhook as a JSON body with a text is sent
\* to the chat id the body names and to no other, or, when it names none,
\* to the default destination and to no other; when it names none and no
\* default is set, it is answered 400 and nothing is sent.
C12_SingleDestination ==
  (/\ relay.endpoint = "tv-webhook"
   /\ relay.req.bodyType = "object"
   /\ Truthy(relay.req.text)
   /\ savedChatIds.type = "array")
  => IF ~Truthy(Destination(relay.req))
     THEN relay.pc = "idle" /\ relay.resp.status = 400
     ELSE /\ relay.pc = "sending" =>
               /\ Items[relay.i].id = Destination(relay.req)
               /\ relay.results = << >>
          /\ relay.pc = "idle" =>
               /\ relay.resp.status = 200
               /\ Len(relay.resp.results) = 1
               /\ relay.resp.results[1].chatId = Destination(relay.req)

\* C13: a fan-out attempts the records of savedChatIds one after the other,
\* whatever the outcome of the sends before: while it runs, results holds
\* one entry for each record before the one being sent to, in the order of
\* savedChatIds; its response holds one entry for every record that was
\* there when the request arrived, in that order.
C13_FanOutOrder ==
  /\ relay.pc = "sending" =>
       /\ relay.i <= Len(Items)
       /\ Len(relay.results) = relay.i - 1
       /\ \A k \in 1..Len(relay.results) : relay.results[k].chatId = Items[k].id
  /\ (relay.pc = "idle" /\ relay.resp.status = 200) =>
       /\ relay.start <= Len(relay.resp.results)
       /\ Len(relay.resp.results) <= Len(Items)
       /\ \A k \in 1..Len(relay.resp.results) :
            relay.resp.results[k].chatId = Items[k].id

\* A fan-out over the full registry was answered: the send to the first
\* record threw and the send to the last one succeeded.
C13_Witness ==
  /\ relay.pc = "idle" /\ relay.resp.status = 200
  /\ relay.start = NumChats
  /\ Len(relay.resp.results) = NumChats
  /\ relay.resp.results[1].error
  /\ relay.resp.results[NumChats].success

\* C14: in every 200 response of a fan-out, sent is the number of entries
\* of results with success = true, and the total reported by /tv-webhook
\* is the number of entries of results.
C14_AggregateCounts ==
  (relay.pc = "idle" /\ relay.resp.status = 200)
  => /\ relay.resp.sent = Succeeded(relay.resp.results)
     /\ relay.endpoint = "tv-webhook" =>
          relay.resp.total = Len(relay.resp.results)

\* C15: a relay request with a text is answered 200 with success = true,
\* whatever the sends did and whatever savedChatIds holds.
C15_NeverFailsOutright ==
  (/\ relay.pc = "idle"
   /\ relay.endpoint /= "none"
   /\ Truthy(relay.req.text) /\ CarriesText)
  => relay.resp.status = 200 /\ relay.resp.success

\* C16: the /telegram-webhook handler writes no response while it waits
\* for its reply to be sent, and exactly one response, 200, by the time it
\* is done with a request.
C16_PushAlways200 ==
  /\ push.pc = "replying" => push.responses = 0
  /\ (push.pc = "idle" /\ push /= PushIdle) =>
       push.responses = 1 /\ push.status = 200

\* The reply to a newly registered chat could not be sent and the request
\* was answered.
C16_Witness ==
  /\ push.pc = "idle" /\ push.failed = "reply"
  /\ push.responses = 1 /\ push.status = 200
  /\ \E c \in ChatIds : stats[c].new = 1

\* C17: within one process the polling cursor never decreases, and when a
\* cycle that fetched a batch ends (the timer for the next cycle is set),
\* the cursor is the update_id of the last update of the batch.
C17_CursorAtBatchEnd ==
  /\ [][restarts' = restarts => lastUpdateId' >= lastUpdateId]_vars
  /\ [][(poll.pc \in {"loop", "replying"} /\ poll'.pc = "timer")
          => lastUpdateId' = poll.batch[Len(poll.batch)].update_id]_vars

\* C18: against a remote API that returns the updates with update_id at or
\* above the offset, a process hands no update to processMessage twice.
C18_AtMostOnce ==
  \A u \in 1..MaxUpdates : handled[u] <= 1

\* Every update was handed to processMessage, in more than one cycle, and
\* the next fetch asks for what follows the last of them.
C18_Witness ==
  /\ \A u \in 1..MaxUpdates : handled[u] = 1
  /\ lastUpdateId = MaxUpdates
  /\ poll.pc = "fetching" /\ poll.offset = MaxUpdates + 1
  /\ Len(updates) = 1

\* C19: a fetch of getUpdates is issued only when no cycle is in progress
\* (the timer is pending, or the process starts); under PollFairness every
\* cycle comes to its end, where the timer is set, and after every end of
\* a cycle a fetch is issued again.
C19_PollingNeverStops ==
  /\ [][(poll'.pc = "fetching" /\ poll' /= poll)
          => (poll.pc = "timer" \/ restarts' /= restarts)]_vars
  /\ (poll.pc /= "timer") ~> (poll.pc = "timer")
  /\ (poll.pc = "timer") ~> (poll.pc = "fetching")

\* A fetch is in flight after a cycle of this process that handed the
\* first update to processMessage.
C19_Witness ==
  /\ poll.pc = "fetching" /\ poll.offset = 2
  /\ handled[1] = 1

\* C20: when the reply to one update of a batch has been awaited and the
\* batch holds a message of a chat after it, the loop goes on with the next
\* update of the batch, whatever the outcome of the reply.
C20_ReplyFailureIsolated ==
  [][(/\ poll.pc = "replying"
      /\ poll.idx < Len(poll.batch)
      /\ HasChat(poll.batch[poll.idx + 1].message)
      /\ poll' /= poll
      /\ restarts' = restarts)
       => poll'.pc = "loop" /\ poll'.idx = poll.idx + 1]_vars

\* C21: a call of saveChatId with a chat id that savedChatIds holds returns
\* false and leaves savedChatIds (the record's username and addedAt
\* included), the file and DEFAULT_CHAT_ID as they were, without reaching
\* writeFileSync, whatever username is passed and whether or not the file
\* can be written.
C21_KnownIdNoEffect ==
  [][(/\ aux'.step /= aux.step
      /\ aux'.step \in {"first", "second"}
      /\ aux'.id \in Ids(Items))
       => /\ savedChatIds' = savedChatIds
          /\ file' = file
          /\ DEFAULT_CHAT_ID' = DEFAULT_CHAT_ID
          /\ stats'[aux'.id].flush = stats[aux'.id].flush
          /\ (IF aux'.step = "first" THEN aux'.first ELSE aux'.second) = "false"]_vars

\* saveChatId was called for a chat id loaded from the snapshot, with
\* another username than the stored one, and then once more.
C21_Witness ==
  /\ aux.step = "second"
  /\ aux.first = "false" /\ aux.second = "false"
  /\ savedChatIds = aux.before
  /\ file = JsonFile(savedChatIds)
  /\ \E i \in 1..Len(Items) :
       Items[i].id = aux.id /\ Items[i].username /= aux.label

\* The sequence s is a prefix of the sequence t.
IsPrefix(s, t) ==
  /\ Len(s) <= Len(t)
  /\ \A i \in 1..Len(s) : s[i] = t[i]

\* C22: in every step of the polling loop, of the push handler, of
\* handleWebhook and of the /broadcast handler, savedChatIds before the
\* step is a prefix of savedChatIds after it: records are appended, never
\* removed, reordered or modified.
C22_AppendOnly ==
  [][/\ savedChatIds'.type = savedChatIds.type
     /\ IsPrefix(Items, savedChatIds'.items)]_vars

\* Two records have been appended in this process, the second one while
\* a fan-out was suspended on a send and after both producers have run.
C22_Witness ==
  /\ loaded = 0 /\ Len(Items) = 2
  /\ relay.pc = "sending" /\ relay.start = 1
  /\ \A i \in 1..2 : stats[Items[i].id].flush = 1
  /\ push.responses > 0
  /\ \E u \in 1..MaxUpdates : handled[u] > 0

\* C23: a call of saveChatId that inserts a record while no default
\* destination is set leaves DEFAULT_CHAT_ID equal to the id of that
\* record; so whenever this process has inserted a record, a default
\* destination is set.
C23_DefaultSetOnInsert ==
  /\ [][\A c \in ChatIds :
          (stats'[c].flush = stats[c].flush + 1 /\ ~Truthy(DEFAULT_CHAT_ID))
            => DEFAULT_CHAT_ID' = c]_vars
  /\ []((\E c \in ChatIds : stats[c].flush > 0) => Truthy(DEFAULT_CHAT_ID))

\* C26: a fan-out attempts the records savedChatIds held when the request
\* arrived and no others: it is never suspended on a send to a record
\* registered later, and its response holds as many results as there were
\* records at the start.
C26_SnapshotTargets ==
  /\ relay.pc = "sending" => relay.i <= relay.start
  /\ (relay.pc = "idle" /\ relay.resp.status = 200) =>
       Len(relay.resp.results) = relay.start

\* C24: when the for loop of pollTelegram processes an update whose
\* message has a chat, processMessage attempts one reply, to the chat of
\* the message: the welcome reply if saveChatId returned true, whatever
\* the text; otherwise the reply to /start, /chatid or /status if the text
\* is that command; otherwise the echo reply.
C24_OneReplyPerMessage ==
  [][(/\ poll.pc = "loop" /\ poll' /= poll
      /\ HasChat(poll.batch[poll.idx].message)
      /\ savedChatIds.type = "array")
       => LET m == poll.batch[poll.idx].message
              c == String(m.chat)
          IN  /\ poll'.pc = "replying"
              /\ poll'.reply.to = c
              /\ poll'.reply.kind =
                   (IF ReturnedNew(c) THEN "welcome"
                    ELSE IF TextOf(m) = "/start" THEN "start"
                    ELSE IF TextOf(m) = "/chatid" THEN "chatid"
                    ELSE IF TextOf(m) = "/status" THEN "status"
                    ELSE "echo")]_vars

\* The reply kinds that answer a recognized command.
CommandReplies == {"start", "chatid", "status", "info"}

\* C25: when the push handler receives a message with a chat and
\* saveChatId returns, it attempts the welcome reply exactly if
\* processMessage would for the same return value, and a command reply
\* exactly if processMessage would for the same text: for /start, /chatid
\* and /status sent by a chat that was registered before.
C25_ProducersAgree ==
  [][(/\ push.pc = "idle" /\ push' /= push
      /\ Len(updates) > 0 /\ HasChat(Delivered)
      /\ savedChatIds.type = "array"
      /\ ~Threw(String(Delivered.chat)))
       => LET isNew == ReturnedNew(String(Delivered.chat))
              text == TextOf(Delivered)
          IN  /\ push'.reply.kind = "welcome"
                   <=> ProcessReply(isNew, text) = "welcome"
              /\ push'.reply.kind \in CommandReplies
                   <=> ProcessReply(isNew, text) \in CommandReplies]_vars

\* The remote API holds an update with a message of chat id c.
Holds(c) ==
  \E i \in 1..Len(updates) :
    HasChat(updates[i].message) /\ String(updates[i].message.chat) = c

\* C27: while the remote API keeps answering the fetches of getUpdates,
\* whenever it holds an update with a message of a chat, the id of that
\* chat is in savedChatIds at some later moment, whatever the reply sends
\* and the writes of the snapshot do.
C27_EventualDiscovery ==
  \A c \in ChatIds : Holds(c) ~> (c \in Ids(Items))

\* Update 2 is processed in a second cycle of the same process, after the
\* write of the snapshot failed while update 1 was processed, and its chat
\* is registered.
C27_Witness ==
  /\ restarts = 0
  /\ poll.pc = "replying" /\ poll.offset = 2
  /\ poll.batch[poll.idx].update_id = 2
  /\ stats[ChatIdStr[1]].thrown = 1
  /\ poll.reply.to = ChatIdStr[2]
  /\ ChatIdStr[2] \in Ids(Items)

====
